---- MODULE Spec2Model ----
(***************************************************************************)
(* Model of the lox scanner (src/src/lexer.rs) and of its command-line     *)
(* driver (src/src/lox.rs, src/src/main.rs).                               *)
(*                                                                         *)
(* A source text is a sequence of characters.  A character is a string: an *)
(* ASCII character stands for itself, "U+00E9" is a character whose UTF-8  *)
(* encoding takes two bytes, "NUL" is '\0'.  The scanner addresses the     *)
(* source in two ways, and the model keeps both: `chars().nth(i)` counts   *)
(* characters, `source.len()` and `&source[a..b]` count bytes.             *)
(***************************************************************************)
EXTENDS Integers, Sequences, FiniteSets, TLC

VARIABLES
    source, tokens, start, current, line, lox,  \* the fields of the Scanner
    out,        \* the diagnostics the scanner's Lox has printed
    pc,         \* "idle", "scan", "returned" or "panic": where scan_tokens is
    spans,      \* <<start, current>> at each push of add_token
    starts,     \* the value of start at each top-level step
    argc,       \* env::args().len()
    file,       \* the file at the path given: [ok, content]
    main_lox,   \* the Lox value of main
    buffer,     \* the line buffer of run_prompt
    reads,      \* what each read_line of run_prompt has read
    stdout,     \* what the driver has printed, one entry per println batch
    exit_code,  \* the exit status of the process, -1 while it runs
    dpc,        \* "off", "main", "prompt" or "exited": where the driver is
    calls,      \* the number of calls of scan_tokens that have returned
    expr,       \* an expression tree built by a caller
    other,      \* a second expression tree
    printed,    \* what AstPrinter.print(&expr) has returned, once called
    printed_other   \* what AstPrinter.print(&other) has returned

vars == <<source, tokens, start, current, line, lox, out, pc, spans, starts,
          argc, file, main_lox, buffer, reads, stdout, exit_code, dpc,
          calls, expr, other, printed, printed_other>>

scanner_vars == <<source, tokens, start, current, line, lox, out, pc, spans,
                  starts, calls>>

expr_vars == <<expr, other, printed, printed_other>>

driver_vars == <<argc, file, main_lox, buffer, reads, stdout, exit_code, dpc>>

\* ------------------------------------------------------------------------
\* Bounds of the model
\* ------------------------------------------------------------------------

MaxLen == 4

MaxReads == 2

MaxLine == 1

MaxCalls == 2

MaxNodes == 3

\* ------------------------------------------------------------------------
\* Characters and strings
\* ------------------------------------------------------------------------

NUL == "NUL"

WideChar == "U+00E9"

Alphabet == {"(", ".", "/", "=", " ", "\n", "\"", "1", "a", WideChar}

LineAlphabet == {"(", "a", "\""}

\* char::len_utf8
ByteLen(c) == IF c = WideChar THEN 2 ELSE 1

RECURSIVE ByteOffset(_, _)
\* byte offset at which the k-th character (0-based) of src starts
ByteOffset(src, k) ==
    IF k = 0 THEN 0 ELSE ByteOffset(src, k - 1) + ByteLen(src[k])

\* String::len: the length in bytes
StrLen(src) == ByteOffset(src, Len(src))

\* str::is_char_boundary
IsCharBoundary(src, b) == \E k \in 0..Len(src) : ByteOffset(src, k) = b

CharIndex(src, b) == CHOOSE k \in 0..Len(src) : ByteOffset(src, k) = b

\* &src[a..b] panics unless a <= b <= len and both lie on a char boundary
SlicePanics(src, a, b) ==
    ~(a <= b /\ IsCharBoundary(src, a) /\ IsCharBoundary(src, b))

\* &src[a..b], the characters encoded by bytes a..b-1
Slice(src, a, b) == SubSeq(src, CharIndex(src, a) + 1, CharIndex(src, b))

\* src.chars().nth(i): the i-th character (0-based) or None
NthIsSome(src, i) == i < Len(src)

Nth(src, i) == src[i + 1]

Digits == {"0", "1", "2", "3", "4", "5", "6", "7", "8", "9"}

DigitVal(c) ==
    CASE c = "0" -> 0 [] c = "1" -> 1 [] c = "2" -> 2 [] c = "3" -> 3
      [] c = "4" -> 4 [] c = "5" -> 5 [] c = "6" -> 6 [] c = "7" -> 7
      [] c = "8" -> 8 [] c = "9" -> 9

RECURSIVE Pow10(_)
Pow10(n) == IF n = 0 THEN 1 ELSE 10 * Pow10(n - 1)

RECURSIVE DecVal(_)
\* value of a run of decimal digits
DecVal(ds) ==
    IF ds = <<>> THEN 0
    ELSE 10 * DecVal(SubSeq(ds, 1, Len(ds) - 1)) + DigitVal(ds[Len(ds)])

RECURSIVE Gcd(_, _)
Gcd(a, b) == IF b = 0 THEN a ELSE Gcd(b, a % b)

\* str::parse::<f64> on texts over the characters of the model (none of
\* which spells an exponent, "inf" or "nan"): an optional sign, then
\* digits, digits '.' digits?, or '.' digits.  The value is kept as the
\* reduced fraction <<numerator, denominator>> that the float approximates.
ParseBody(t) == IF t # <<>> /\ t[1] \in {"+", "-"} THEN Tail(t) ELSE t

ParseDots(t) == {i \in 1..Len(t) : t[i] = "."}

ParseOk(t) ==
    LET b == ParseBody(t)
        dots == ParseDots(b)
    IN /\ \A i \in 1..Len(b) : b[i] \in Digits \cup {"."}
       /\ Cardinality(dots) <= 1
       /\ Len(b) - Cardinality(dots) >= 1

ParseF64(t) ==
    LET b == ParseBody(t)
        dots == ParseDots(b)
        d == IF dots = {} THEN Len(b) + 1 ELSE CHOOSE i \in dots : TRUE
        ip == SubSeq(b, 1, d - 1)
        fp == SubSeq(b, d + 1, Len(b))
        num == DecVal(ip) * Pow10(Len(fp)) + DecVal(fp)
        den == Pow10(Len(fp))
        g == Gcd(num, den)
        sgn == IF t[1] = "-" THEN -1 ELSE 1
    IN <<sgn * (num \div g), den \div g>>

\* ------------------------------------------------------------------------
\* Tokens
\* ------------------------------------------------------------------------

TokenType(kind) == [kind |-> kind, text |-> <<>>, num |-> <<0, 1>>]

Str(value) == [kind |-> "Str", text |-> value, num |-> <<0, 1>>]

Number(n) == [kind |-> "Number", text |-> <<>>, num |-> n]

Token(token_type, lexeme, ln) ==
    [token_type |-> token_type, lexeme |-> lexeme, line |-> ln]

\* ------------------------------------------------------------------------
\* The scanner: operations on a value s of struct Scanner.  s.out is what
\* s.lox has printed, s.panicked is set when the thread has panicked (the
\* rest of the scan is then skipped), s.spans and s.starts record the
\* cursor values at each push and at each top-level step.
\* ------------------------------------------------------------------------

\* Lox::error / Lox::report on the scanner's own Lox
error(s, ln, message) ==
    [s EXCEPT !.out = Append(@, [line |-> ln, message |-> message]),
              !.lox = [had_error |-> TRUE]]

Panic(s) == [s EXCEPT !.panicked = TRUE]

new(src) ==
    [source |-> src, tokens |-> <<>>, start |-> 0, current |-> 0,
     line |-> 1, lox |-> [had_error |-> FALSE], out |-> <<>>,
     panicked |-> FALSE, spans |-> <<>>, starts |-> <<>>]

is_digit(c) == c \in Digits

is_at_end(s) == s.current >= StrLen(s.source)

peek(s) ==
    IF is_at_end(s) THEN NUL
    ELSE IF NthIsSome(s.source, s.current) THEN Nth(s.source, s.current)
    ELSE NUL

peek_next(s) ==
    IF s.current + 1 >= StrLen(s.source) THEN NUL
    ELSE IF NthIsSome(s.source, s.current + 1)
         THEN Nth(s.source, s.current + 1)
    ELSE NUL

\* the character advance returns
advance_char(s) ==
    IF NthIsSome(s.source, s.current) THEN Nth(s.source, s.current) ELSE NUL

\* the state advance leaves
advance(s) == [s EXCEPT !.current = @ + 1]

add_token(s, token_type) ==
    IF SlicePanics(s.source, s.start, s.current) THEN Panic(s)
    ELSE [s EXCEPT
            !.tokens = Append(@, Token(token_type,
                                       Slice(s.source, s.start, s.current),
                                       s.line)),
            !.spans = Append(@, <<s.start, s.current>>)]

\* match_next: the unwrap of chars().nth(current) panics on None
match_next_panics(s) ==
    ~is_at_end(s) /\ ~NthIsSome(s.source, s.current)

match_next_result(s, expected) ==
    ~is_at_end(s) /\ NthIsSome(s.source, s.current)
                  /\ Nth(s.source, s.current) = expected

\* match_next without its second early return: the character is consumed
\* whether or not it is the expected one
match_next_unconditional(s, expected) ==
    IF match_next_panics(s) THEN Panic(s)
    ELSE IF is_at_end(s) THEN s
    ELSE [s EXCEPT !.current = @ + 1]

match_next(s, expected) ==
    IF match_next_panics(s) THEN Panic(s)
    ELSE IF match_next_result(s, expected) THEN [s EXCEPT !.current = @ + 1]
    ELSE s

\* the one-or-two character operators of scan_token
operator(s, two, one) ==
    LET m == match_next(s, "=")
    IN IF m.panicked THEN m
       ELSE IF match_next_result(s, "=") THEN add_token(m, TokenType(two))
       ELSE add_token(m, TokenType(one))

RECURSIVE comment_to_end(_)
\* the comment loop without its test for the newline
comment_to_end(s) == IF ~is_at_end(s) THEN comment_to_end(advance(s)) ELSE s

RECURSIVE comment(_)
\* while self.peek() != '\n' && !self.is_at_end() { self.advance(); }
comment(s) ==
    IF peek(s) # "\n" /\ ~is_at_end(s) THEN comment(advance(s)) ELSE s

RECURSIVE digits(_)
\* while self.is_digit(self.peek()) { self.advance(); }
digits(s) == IF is_digit(peek(s)) THEN digits(advance(s)) ELSE s

\* number without the lookahead past the dot
number_span_no_lookahead(s) ==
    LET a == digits(s)
    IN IF peek(a) = "." THEN digits(advance(a)) ELSE a

\* the cursor movement of number: the integer part and the fractional part
number_span(s) ==
    LET a == digits(s)
    IN IF peek(a) = "." /\ is_digit(peek_next(a)) THEN digits(advance(a))
       ELSE a

number(s) ==
    LET a == number_span(s)
    IN IF SlicePanics(a.source, a.start, a.current) THEN Panic(a)
       ELSE LET num_str == Slice(a.source, a.start, a.current)
            IN IF ParseOk(num_str)
               THEN add_token(a, Number(ParseF64(num_str)))
               ELSE error(a, a.line, <<"Expected a decimal.">>)

RECURSIVE string_body_one_line(_)
\* the loop of string without its count of the newlines
string_body_one_line(s) ==
    IF peek(s) # "\"" /\ ~is_at_end(s)
    THEN string_body_one_line(advance(s))
    ELSE s

RECURSIVE string_body(_)
\* the loop of string: up to the closing quote or the end of input
string_body(s) ==
    IF peek(s) # "\"" /\ ~is_at_end(s)
    THEN string_body(advance(IF peek(s) = "\n"
                             THEN [s EXCEPT !.line = @ + 1] ELSE s))
    ELSE s

string(s) ==
    LET a == string_body(s)
        b == IF is_at_end(a)
             THEN error(a, a.line, <<"Unterminated string.">>) ELSE a
        c == advance(b)
    IN IF SlicePanics(c.source, c.start + 1, c.current - 1) THEN Panic(c)
       ELSE add_token(c, Str(Slice(c.source, c.start + 1, c.current - 1)))

SingleChar ==
    [c \in {"(", ")", "{", "}", ",", ".", "-", "+", ";", "*"} |->
        CASE c = "(" -> "LeftParen" [] c = ")" -> "RightParen"
          [] c = "{" -> "LeftBrace" [] c = "}" -> "RightBrace"
          [] c = "," -> "Comma" [] c = "." -> "Dot" [] c = "-" -> "Minus"
          [] c = "+" -> "Plus" [] c = ";" -> "Semicolon" [] c = "*" -> "Star"]

scan_token(s) ==
    LET c == advance_char(s)
        a == advance(s)
    IN CASE c \in DOMAIN SingleChar -> add_token(a, TokenType(SingleChar[c]))
         [] c = "!" -> operator(a, "BangEqual", "Bang")
         [] c = "=" -> operator(a, "EqualEqual", "Equal")
         [] c = "<" -> operator(a, "LessEqual", "Less")
         [] c = ">" -> operator(a, "GreaterEqual", "Greater")
         [] c = "/" ->
              LET m == match_next(a, "/")
              IN IF m.panicked THEN m
                 ELSE IF match_next_result(a, "/") THEN comment(m)
                 ELSE add_token(m, TokenType("Slash"))
         [] c \in {" ", "\r", "\t"} -> a
         [] c = "\n" -> [a EXCEPT !.line = @ + 1]
         [] c = "\"" -> string(a)
         [] OTHER ->
              IF is_digit(c) THEN number(a)
              ELSE error(a, a.line, <<"Unexpected character", c>>)

\* one iteration of the loop of scan_tokens
scan_step(s) ==
    scan_token([s EXCEPT !.start = s.current,
                         !.starts = Append(@, s.current)])

\* the end of scan_tokens pushing Eof only where the list does not end
\* with one
scan_eof_once(s) ==
    IF s.tokens # <<>> /\ s.tokens[Len(s.tokens)].token_type.kind = "Eof"
    THEN s
    ELSE [s EXCEPT !.tokens = Append(@, Token(TokenType("Eof"), <<>>, s.line))]

\* the end of scan_tokens: push the Eof token
scan_eof(s) ==
    [s EXCEPT !.tokens = Append(@, Token(TokenType("Eof"), <<>>, s.line))]

RECURSIVE scan_tokens(_)
\* scan_tokens as a whole, as run by Lox::run
scan_tokens(s) ==
    IF s.panicked THEN s
    ELSE IF is_at_end(s) THEN scan_eof(s)
    ELSE scan_tokens(scan_step(s))

\* ------------------------------------------------------------------------
\* Expression trees and the tree printer (src/src/expr.rs).  A text is a
\* sequence of characters, as a lexeme is.
\* ------------------------------------------------------------------------

\* Option<Token>
NoToken == Token(TokenType("Eof"), <<>>, 0)

None == [some |-> FALSE, tok |-> NoToken]

Some(t) == [some |-> TRUE, tok |-> t]

\* enum Expr
Binary(left, op, right) ==
    [variant |-> "Binary", token |-> Some(op), kids |-> <<left, right>>]

Grouping(expression) ==
    [variant |-> "Grouping", token |-> None, kids |-> <<expression>>]

Literal(value) == [variant |-> "Literal", token |-> value, kids |-> <<>>]

Unary(op, right) ==
    [variant |-> "Unary", token |-> Some(op), kids |-> <<right>>]

\* what a visitor call returns: the text, the calls accept has made on the
\* way, and whether a panic! branch was taken
Returned(text) ==
    [text |-> text, visits |-> <<>>, panicked |-> FALSE, done |-> TRUE]

Panicked ==
    [text |-> <<>>, visits |-> <<>>, panicked |-> TRUE, done |-> TRUE]

NotCalled ==
    [text |-> <<>>, visits |-> <<>>, panicked |-> FALSE, done |-> FALSE]

GroupName == <<"g", "r", "o", "u", "p">>

NilText == <<"n", "i", "l">>

RECURSIVE accept(_)

RECURSIVE parenthesize_children_reversed(_, _)
\* the loop of parenthesize taking the children from the last to the first
parenthesize_children_reversed(builder, exprs) ==
    IF exprs = <<>> \/ builder.panicked THEN builder
    ELSE LET r == accept(exprs[Len(exprs)])
         IN parenthesize_children_reversed(
                [builder EXCEPT !.text = @ \o <<" ">> \o r.text,
                                !.visits = @ \o r.visits,
                                !.panicked = r.panicked],
                SubSeq(exprs, 1, Len(exprs) - 1))

RECURSIVE parenthesize_children(_, _)
\* the loop of parenthesize: a space and the rendering of each child
parenthesize_children(builder, exprs) ==
    IF exprs = <<>> \/ builder.panicked THEN builder
    ELSE LET r == accept(Head(exprs))
         IN parenthesize_children(
                [builder EXCEPT !.text = @ \o <<" ">> \o r.text,
                                !.visits = @ \o r.visits,
                                !.panicked = r.panicked],
                Tail(exprs))

parenthesize(name, exprs) ==
    LET b == parenthesize_children(Returned(<<"(">> \o name), exprs)
    IN [b EXCEPT !.text = @ \o <<")">>]

visit_binary_expr(e) ==
    IF e.variant = "Binary"
    THEN parenthesize(e.token.tok.lexeme, <<e.kids[1], e.kids[2]>>)
    ELSE Panicked

visit_grouping_expr(e) ==
    IF e.variant = "Grouping" THEN parenthesize(GroupName, <<e.kids[1]>>)
    ELSE Panicked

visit_literal_expr(e) ==
    IF e.variant = "Literal"
    THEN IF e.token.some THEN Returned(e.token.tok.lexeme)
         ELSE Returned(NilText)
    ELSE Panicked

visit_unary_expr(e) ==
    IF e.variant = "Unary"
    THEN parenthesize(e.token.tok.lexeme, <<e.kids[1]>>)
    ELSE Panicked

\* accept with the arms of Grouping and Unary calling each other's method
accept_method_swapped(variant) ==
    CASE variant = "Binary" -> "visit_binary_expr"
      [] variant = "Grouping" -> "visit_unary_expr"
      [] variant = "Literal" -> "visit_literal_expr"
      [] variant = "Unary" -> "visit_grouping_expr"

\* the visitor method accept calls on a node of the given variant
accept_method(variant) ==
    CASE variant = "Binary" -> "visit_binary_expr"
      [] variant = "Grouping" -> "visit_grouping_expr"
      [] variant = "Literal" -> "visit_literal_expr"
      [] variant = "Unary" -> "visit_unary_expr"

\* the node accept passes: the clone of self, taken apart and built again
accept_node(e) ==
    CASE e.variant = "Binary" -> Binary(e.kids[1], e.token.tok, e.kids[2])
      [] e.variant = "Grouping" -> Grouping(e.kids[1])
      [] e.variant = "Literal" -> Literal(e.token)
      [] e.variant = "Unary" -> Unary(e.token.tok, e.kids[1])

visit(method, node) ==
    CASE method = "visit_binary_expr" -> visit_binary_expr(node)
      [] method = "visit_grouping_expr" -> visit_grouping_expr(node)
      [] method = "visit_literal_expr" -> visit_literal_expr(node)
      [] method = "visit_unary_expr" -> visit_unary_expr(node)

accept(e) ==
    LET method == accept_method(e.variant)
        node == accept_node(e)
        r == visit(method, node)
    IN [r EXCEPT !.visits = <<[method |-> method, receiver |-> e,
                               node |-> node]>> \o @]

\* AstPrinter.print
print(e) == accept(e)

\* the tokens callers put in the trees of the model
LiteralTokens ==
    { Token(Number(<<1, 1>>), <<"1">>, 1),
      Token(Number(<<1, 1>>), <<"1">>, 2),
      Token(TokenType("Nil"), NilText, 1) }

OperatorTokens ==
    { Token(TokenType("Minus"), <<"-">>, 1),
      Token([kind |-> "Identifier", text |-> GroupName, num |-> <<0, 1>>],
            GroupName, 1) }

Literals == {Literal(None)} \cup {Literal(Some(t)) : t \in LiteralTokens}

RECURSIVE ExprsOfSize(_)
\* the trees of exactly n nodes
ExprsOfSize(n) ==
    IF n = 1 THEN Literals
    ELSE {Grouping(e) : e \in ExprsOfSize(n - 1)}
         \cup {Unary(op, e) : op \in OperatorTokens, e \in ExprsOfSize(n - 1)}
         \cup UNION { {Binary(l, op, r) : l \in ExprsOfSize(k),
                                          op \in OperatorTokens,
                                          r \in ExprsOfSize(n - 1 - k)}
                      : k \in 1..(n - 2) }

\* the tree of tests::test_pretty_printer
TestExpression ==
    Binary(Unary(Token(TokenType("Minus"), <<"-">>, 1),
                 Literal(Some(Token(Number(<<123, 1>>),
                                    <<"1", "2", "3">>, 1)))),
           Token(TokenType("Star"), <<"*">>, 1),
           Grouping(Literal(Some(Token(Number(<<4567, 100>>),
                                       <<"4", "5", ".", "6", "7">>, 1)))))

Exprs == UNION {ExprsOfSize(n) : n \in 1..MaxNodes} \cup {TestExpression}

ExprOff ==
    /\ expr = Literal(None)
    /\ other = Literal(None)
    /\ printed = NotCalled
    /\ printed_other = NotCalled

\* ------------------------------------------------------------------------
\* The scan of one source, one top-level step at a time
\* ------------------------------------------------------------------------

\* the source of tests::test_scanner
TestSource ==
    <<"(", "(", ")", ")", "{", "}", "!", "*", "+", "-", "/", "=", "<", ">",
      " ", "<", "=", " ", ">", "=", " ", "=", "=", " ",
      "\"", "f", "o", "o", " ", "b", "a", "r", " ", "b", "a", "z", "\"",
      " ", "=", " ", "2", "0", " ", "\n", "3", ".", "1", "4", " ", "/", "/",
      " ">>

NamedSources ==
    { TestSource,
      <<"1", "2", "3", ".">>,
      <<"1", ".", "2", ".", "3">>,
      <<"=", "=", "=">>,
      <<"!", "=", "<", "=", ">", "=", "<", ">", "!">>,
      <<"(", ")", "{", "}", ",", ".", "-", "+", ";", "/", "*">>,
      <<"/", "/", "\"", "1", "a", "=", "\n", "(">>,
      <<"\"", "a", "\n", "b", "\n", "\"", "(">>,
      <<"(", "\n", "\"", "a", "b">>,
      <<WideChar, WideChar, "=", "=">>,
      <<WideChar, WideChar, "1", "1">>,
      <<"\"", WideChar, "\"">> }

Sources == UNION {[1..n -> Alphabet] : n \in 0..MaxLen} \cup NamedSources

\* the Scanner the variables hold
Self ==
    [source |-> source, tokens |-> tokens, start |-> start,
     current |-> current, line |-> line, lox |-> lox, out |-> out,
     panicked |-> (pc = "panic"), spans |-> spans, starts |-> starts]

\* the variables take the fields of s; scan_tokens is at `at` unless
\* s has panicked
Becomes(s, at) ==
    /\ source' = s.source
    /\ tokens' = s.tokens
    /\ start' = s.start
    /\ current' = s.current
    /\ line' = s.line
    /\ lox' = s.lox
    /\ out' = s.out
    /\ spans' = s.spans
    /\ starts' = s.starts
    /\ pc' = IF s.panicked THEN "panic" ELSE at

DriverOff ==
    /\ argc = 1
    /\ file = [ok |-> FALSE, content |-> <<>>]
    /\ main_lox = [had_error |-> FALSE]
    /\ buffer = <<>>
    /\ reads = <<>>
    /\ stdout = <<>>
    /\ exit_code = -1
    /\ dpc = "off"

\* Scanner::new(src), before the first call of scan_tokens
Fresh(src) ==
    /\ source = src
    /\ tokens = <<>>
    /\ start = 0
    /\ current = 0
    /\ line = 1
    /\ lox = [had_error |-> FALSE]
    /\ out = <<>>
    /\ spans = <<>>
    /\ starts = <<>>

Init ==
    /\ \E src \in Sources : Fresh(src)
    /\ pc = "scan"
    /\ calls = 0
    /\ DriverOff
    /\ ExprOff

\* one iteration of the loop of scan_tokens
ScanStep ==
    /\ pc = "scan"
    /\ ~is_at_end(Self)
    /\ Becomes(scan_step(Self), "scan")
    /\ UNCHANGED <<calls, driver_vars, expr_vars>>

\* the loop of scan_tokens has ended: push Eof and return the tokens
ScanEof ==
    /\ pc = "scan"
    /\ is_at_end(Self)
    /\ Becomes(scan_eof(Self), "returned")
    /\ calls' = calls + 1
    /\ UNCHANGED <<driver_vars, expr_vars>>

Next == ScanStep \/ ScanEof

Spec == Init /\ [][Next]_vars

\* a further call of scan_tokens on the Scanner whose call has returned
ScanAgain ==
    /\ pc = "returned"
    /\ calls < MaxCalls
    /\ Becomes(scan_tokens(Self), "returned")
    /\ calls' = calls + 1
    /\ UNCHANGED <<driver_vars, expr_vars>>

NextAgain == ScanStep \/ ScanEof \/ ScanAgain

SpecAgain == Init /\ [][NextAgain]_vars

\* ------------------------------------------------------------------------
\* The printing of a tree
\* ------------------------------------------------------------------------

ScannerOff ==
    /\ Fresh(<<>>)
    /\ pc = "idle"
    /\ calls = 0

InitExpr ==
    /\ expr \in Exprs
    /\ other \in Exprs
    /\ printed = NotCalled
    /\ printed_other = NotCalled
    /\ ScannerOff
    /\ DriverOff

\* AstPrinter.print(&expr)
PrintExpr ==
    /\ ~printed.done
    /\ printed' = print(expr)
    /\ UNCHANGED <<expr, other, printed_other, scanner_vars, driver_vars>>

\* AstPrinter.print(&other)
PrintOther ==
    /\ ~printed_other.done
    /\ printed_other' = print(other)
    /\ UNCHANGED <<expr, other, printed, scanner_vars, driver_vars>>

NextExpr == PrintExpr \/ PrintOther

SpecExpr == InitExpr /\ [][NextExpr]_vars

\* ------------------------------------------------------------------------
\* The driver: main, Lox::run_file, Lox::run_prompt, Lox::run
\* ------------------------------------------------------------------------

Argcs == {0, 1, 2}

Files ==
    {[ok |-> TRUE, content |-> src] : src \in Sources}
        \cup {[ok |-> FALSE, content |-> <<>>]}

\* what read_line appends: a line with its newline; nothing at end of input
PromptLines ==
    {l \o <<"\n">> : l \in UNION {[1..n -> LineAlphabet] : n \in 0..MaxLine}}
        \cup {<<>>}

\* what Lox::run prints: the diagnostics of the scan, then the tokens
Printed(s) ==
    [kind |-> "run", reports |-> s.out,
     tokens |-> IF s.panicked THEN <<>> ELSE s.tokens]

\* Lox::run(src): a Scanner of its own, and with it a Lox of its own
run(src) == scan_tokens(new(src))

\* the status run_file ends the process with; 0 is main returning
run_file_status(l, s) ==
    IF s.panicked THEN 101 ELSE IF l.had_error THEN 65 ELSE 0

InitDriver ==
    /\ Fresh(<<>>)
    /\ pc = "idle"
    /\ argc \in Argcs
    /\ file \in IF argc = 2 THEN Files ELSE {[ok |-> FALSE, content |-> <<>>]}
    /\ main_lox = [had_error |-> FALSE]
    /\ buffer = <<>>
    /\ reads = <<>>
    /\ stdout = <<>>
    /\ exit_code = -1
    /\ dpc = "main"
    /\ calls = 0
    /\ ExprOff

\* main with one argument: the usage line, exit 64
MainUsage ==
    /\ dpc = "main"
    /\ argc = 1
    /\ stdout' = Append(stdout, [kind |-> "usage", reports |-> <<>>,
                                 tokens |-> <<>>])
    /\ exit_code' = 64
    /\ dpc' = "exited"
    /\ UNCHANGED <<argc, file, main_lox, buffer, reads>>
    /\ UNCHANGED <<scanner_vars, expr_vars>>

\* main with more arguments: run_file on a file that cannot be read
MainFileErr ==
    /\ dpc = "main"
    /\ argc > 1
    /\ ~file.ok
    /\ exit_code' = 0
    /\ dpc' = "exited"
    /\ UNCHANGED <<argc, file, main_lox, buffer, reads, stdout>>
    /\ UNCHANGED <<scanner_vars, expr_vars>>

\* main with more arguments: run_file on a file that can be read
MainFile ==
    /\ dpc = "main"
    /\ argc > 1
    /\ file.ok
    /\ LET s == run(file.content)
       IN /\ Becomes(s, "returned")
          /\ stdout' = Append(stdout, Printed(s))
          /\ exit_code' = run_file_status(main_lox, s)
    /\ dpc' = "exited"
    /\ calls' = IF pc' = "returned" THEN 1 ELSE 0
    /\ UNCHANGED <<argc, file, main_lox, buffer, reads, expr_vars>>

\* main with no argument at all: run_prompt
MainPrompt ==
    /\ dpc = "main"
    /\ argc = 0
    /\ dpc' = "prompt"
    /\ UNCHANGED <<argc, file, main_lox, buffer, reads, stdout, exit_code>>
    /\ UNCHANGED <<scanner_vars, expr_vars>>

\* what one iteration of run_prompt scans after read_line has read ln
prompt_source(buf, ln) == buf \o ln

\* one iteration of the loop of run_prompt
PromptStep ==
    /\ dpc = "prompt"
    /\ Len(reads) < MaxReads
    /\ \E ln \in PromptLines :
         LET b == prompt_source(buffer, ln)
             s == run(b)
         IN /\ reads' = Append(reads, ln)
            /\ buffer' = b
            /\ Becomes(s, "returned")
            /\ stdout' = stdout \o <<[kind |-> "prompt", reports |-> <<>>,
                                      tokens |-> <<>>], Printed(s)>>
            /\ main_lox' = IF s.panicked THEN main_lox
                           ELSE [had_error |-> FALSE]
            /\ exit_code' = IF s.panicked THEN 101 ELSE exit_code
            /\ dpc' = IF s.panicked THEN "exited" ELSE "prompt"
    /\ calls' = IF pc' = "returned" THEN 1 ELSE 0
    /\ UNCHANGED <<argc, file, expr_vars>>

\* read_line fails: run_prompt returns the error, main ignores it
PromptErr ==
    /\ dpc = "prompt"
    /\ stdout' = Append(stdout, [kind |-> "prompt", reports |-> <<>>,
                                 tokens |-> <<>>])
    /\ exit_code' = 0
    /\ dpc' = "exited"
    /\ UNCHANGED <<argc, file, main_lox, buffer, reads>>
    /\ UNCHANGED <<scanner_vars, expr_vars>>

NextDriver ==
    \/ MainUsage
    \/ MainFileErr
    \/ MainFile
    \/ MainPrompt
    \/ PromptStep
    \/ PromptErr

SpecDriver == InitDriver /\ [][NextDriver]_vars

\* ------------------------------------------------------------------------
\* Properties
\* ------------------------------------------------------------------------

Unterminated == <<"Unterminated string.">>

ReportsOf(message) == {i \in 1..Len(out) : out[i].message = message}

EofTokens == {i \in 1..Len(tokens) : tokens[i].token_type.kind = "Eof"}

\* C1: an unterminated string literal is reported once as `Unterminated
\* string` at the current line, pushes no token for the literal and does not
\* halt the scan: scan_tokens returns the tokens scanned before the literal
\* followed by the Eof token.
C1_UnterminatedStringNotFatal ==
    ReportsOf(Unterminated) # {} =>
        /\ Cardinality(ReportsOf(Unterminated)) = 1
        /\ out[Len(out)] = [line |-> line, message |-> Unterminated]
        /\ pc # "panic"
        /\ \A i \in 1..Len(spans) : spans[i][2] <= start
        /\ pc = "returned" =>
              /\ Len(tokens) = Len(spans) + 1
              /\ tokens[Len(tokens)].token_type.kind = "Eof"

\* C2: for every source the first call of scan_tokens returns a sequence
\* with exactly one Eof token, which is its last element, has an empty
\* lexeme and carries the line counter reached at the end of input.
C2_ExactlyOneEofLast ==
    pc # "scan" =>
        /\ pc = "returned"
        /\ EofTokens = {Len(tokens)}
        /\ tokens[Len(tokens)] = Token(TokenType("Eof"), <<>>, line)

\* C3: in file mode the process exits with status 65 if the scan of the
\* file reported a lexical error and with status 0 if it reported none: the
\* report is visible in the had_error flag that run_file tests.
C3_FileModeExitStatus ==
    (dpc = "exited" /\ argc > 1 /\ file.ok /\ pc = "returned") =>
        exit_code = IF out # <<>> THEN 65 ELSE 0

Punctuation == {"(", ")", "{", "}", ",", ".", "-", "+", ";", "/", "*"}

OnlyPunctuation(src) == \A i \in 1..Len(src) : src[i] \in Punctuation

NoCommentStart(src) ==
    \A i \in 1..(Len(src) - 1) : ~(src[i] = "/" /\ src[i + 1] = "/")

AllPunctuation == <<"(", ")", "{", "}", ",", ".", "-", "+", ";", "/", "*">>

\* C4 as stated: every source made only of the characters ( ) { } , . - + ;
\* / * yields exactly (number of characters) + 1 tokens.
C4_PunctuationCount ==
    (pc # "scan" /\ OnlyPunctuation(source)) =>
        (pc = "returned" /\ Len(tokens) = Len(source) + 1)

\* C4 as amended: every source made only of the characters ( ) { } , . - +
\* ; / * in which no / is directly followed by another / yields exactly
\* (number of characters) + 1 tokens, the last one being Eof.
C4_PunctuationCountNoComment ==
    (pc # "scan" /\ OnlyPunctuation(source) /\ NoCommentStart(source)) =>
        /\ pc = "returned"
        /\ Len(tokens) = Len(source) + 1
        /\ EofTokens = {Len(source) + 1}

C4_Witness ==
    /\ pc = "returned"
    /\ source = AllPunctuation
    /\ Len(tokens) = Len(AllPunctuation) + 1

\* C5: the lexeme of every token but Eof is the text of the source from
\* `start` to `current` at the push, and the tokens lie in source order with
\* spans that do not overlap.
C5_LexemeIsSpan ==
    \A i \in 1..Len(spans) :
        /\ tokens[i].lexeme = SubSeq(source, spans[i][1] + 1, spans[i][2])
        /\ spans[i][1] < spans[i][2]
        /\ i > 1 => spans[i - 1][2] <= spans[i][1]

\* the closing quote of the literal opened at a (0-based), if there is one
HasClosingQuote(src, a) == \E k \in (a + 1)..(Len(src) - 1) : src[k + 1] = "\""

ClosingQuote(src, a) ==
    CHOOSE k \in (a + 1)..(Len(src) - 1) :
        /\ src[k + 1] = "\""
        /\ \A m \in (a + 1)..(k - 1) : src[m + 1] # "\""

\* the newlines among the first k characters
Newlines(src, k) == Cardinality({i \in 1..k : src[i] = "\n"})

\* the top-level steps taken so far that began on a character c with P(c)
StepsOn(P(_)) ==
    {i \in 1..Len(starts) :
        starts[i] < Len(source) /\ P(source[starts[i] + 1])}

IsQuote(c) == c = "\""

\* C6: a terminated string literal produces exactly one Str token: its
\* value is the text between the quotes, its lexeme includes both quotes,
\* its line is the line of the closing quote.
C6_TerminatedString ==
    \A i \in StepsOn(IsQuote) :
        HasClosingQuote(source, starts[i]) =>
            LET a == starts[i]
                q == ClosingQuote(source, a)
                pushed == {j \in 1..Len(spans) : spans[j][1] = a}
            IN /\ Cardinality(pushed) = 1
               /\ \A j \in pushed :
                    /\ spans[j][2] = q + 1
                    /\ tokens[j] = Token(Str(SubSeq(source, a + 2, q)),
                                         SubSeq(source, a + 1, q + 1),
                                         1 + Newlines(source, q))

RECURSIVE DigitRunEnd(_, _)
\* the end of the maximal run of digits of src that begins at k (0-based)
DigitRunEnd(src, k) ==
    IF k < Len(src) /\ src[k + 1] \in Digits THEN DigitRunEnd(src, k + 1)
    ELSE k

\* the end of the number that begins at a: digits, then a dot and digits
\* only if a digit follows the dot
NumberEnd(src, a) ==
    LET e == DigitRunEnd(src, a)
    IN IF e + 1 < Len(src) /\ src[e + 1] = "." /\ src[e + 2] \in Digits
       THEN DigitRunEnd(src, e + 1)
       ELSE e

\* the cursor at the end of the i-th top-level step
StepEnd(i) == IF i < Len(starts) THEN starts[i + 1] ELSE current

IsDigitChar(c) == c \in Digits

EofToken(ln) == Token(TokenType("Eof"), <<>>, ln)

\* C7: a number is a maximal run of digits, then a dot and a second maximal
\* run of digits only when a digit follows the dot; `123.` yields Number
\* `123` then Dot, and `1.2.3` yields Number `1.2`, Dot, Number `3`.
C7_NumberSpan ==
    /\ \A i \in StepsOn(IsDigitChar) :
            StepEnd(i) = NumberEnd(source, starts[i])
    /\ (pc = "returned" /\ source = <<"1", "2", "3", ".">>) =>
            tokens = << Token(Number(<<123, 1>>), <<"1", "2", "3">>, 1),
                        Token(TokenType("Dot"), <<".">>, 1),
                        EofToken(1) >>
    /\ (pc = "returned" /\ source = <<"1", ".", "2", ".", "3">>) =>
            tokens = << Token(Number(<<6, 5>>), <<"1", ".", "2">>, 1),
                        Token(TokenType("Dot"), <<".">>, 1),
                        Token(Number(<<3, 1>>), <<"3">>, 1),
                        EofToken(1) >>

C7_Witness ==
    /\ pc = "returned"
    /\ source = <<"1", ".", "2", ".", "3">>
    /\ Len(tokens) = 4
    /\ tokens[1].token_type.kind = "Number"
    /\ spans = << <<0, 3>>, <<3, 4>>, <<4, 5>> >>

\* the cursor is on the first slash of a line comment
AtCommentStart ==
    /\ current + 1 < Len(source)
    /\ source[current + 1] = "/"
    /\ source[current + 2] = "/"

AtNewline == current < Len(source) /\ source[current + 1] = "\n"

\* the newlines of the source at or after position k (0-based)
NewlinesFrom(k) == {n \in k..(Len(source) - 1) : source[n + 1] = "\n"}

\* C8: the step that consumes `//` consumes every character up to, not
\* including, the next newline or the end of input, pushes no token and
\* reports no error whatever the characters are; the newline is left to the
\* next top-level step, which increments the line counter.
C8_LineComment ==
    [][ /\ (pc = "scan" /\ AtCommentStart) =>
            /\ pc' = "scan"
            /\ tokens' = tokens
            /\ out' = out
            /\ line' = line
            /\ start' = current
            /\ current' >= current + 2
            /\ NewlinesFrom(current) = {} => current' = StrLen(source)
            /\ NewlinesFrom(current) # {} =>
                  /\ current' \in NewlinesFrom(current)
                  /\ \A n \in NewlinesFrom(current) : current' <= n
        /\ (pc = "scan" /\ AtNewline) =>
            /\ pc' = "scan"
            /\ line' = line + 1
            /\ current' = current + 1
            /\ tokens' = tokens
            /\ out' = out ]_vars

IsSlash(c) == c = "/"

C8_Witness ==
    \E i \in StepsOn(IsSlash) :
        /\ starts[i] + 3 < Len(source)
        /\ source[starts[i] + 2] = "/"
        /\ source[starts[i] + 3] \in {"\"", "1", "a", "=", WideChar}
        /\ i + 1 <= Len(starts)
        /\ source[starts[i + 1] + 1] = "\n"
        /\ starts[i + 1] > starts[i] + 2
        /\ line > 1
        /\ tokens = <<>>
        /\ out = <<>>

Recognized ==
    Punctuation \cup Digits \cup {"!", "=", "<", ">", " ", "\r", "\t", "\n", "\""}

Unrecognized(c) == c \notin Recognized

IsUnexpected(m) == Len(m) = 2 /\ m[1] = "Unexpected character"

UnexpectedReports == {i \in 1..Len(out) : IsUnexpected(out[i].message)}

ScanEndsWithEof ==
    StepsOn(Unrecognized) # {} =>
        /\ Cardinality(UnexpectedReports) = Cardinality(StepsOn(Unrecognized))
        /\ pc # "scan" =>
              /\ pc = "returned"
              /\ tokens[Len(tokens)].token_type.kind = "Eof"

\* C9: a character that starts no token is not fatal: its step reports one
\* `Unexpected character` at the current line, pushes no token and advances
\* the cursor by one, so a source with k such top-level characters produces
\* k such reports and still ends with the Eof token.
C9_UnexpectedCharacter ==
    [][ /\ (pc = "scan" /\ current < Len(source)
                        /\ Unrecognized(source[current + 1])) =>
            /\ pc' = "scan"
            /\ out' = Append(out, [line |-> line,
                                   message |-> <<"Unexpected character",
                                                 source[current + 1]>>])
            /\ tokens' = tokens
            /\ current' = current + 1
            /\ line' = line
        /\ ScanEndsWithEof' ]_vars

\* the number of lines run_prompt has read
Runs == 1..Len(reads)

\* C10: every iteration of run_prompt scans exactly the line it has read
\* and prints its tokens and reports, and resets had_error, so that what is
\* printed for a line does not depend on the lines before it.
C10_PromptScansTheLineRead ==
    (argc = 0 /\ reads # <<>>) =>
        /\ source = reads[Len(reads)]
        /\ \A j \in Runs : stdout[2 * j] = Printed(run(reads[j]))
        /\ main_lox.had_error = FALSE

RECURSIVE Rendering(_)
\* the rendering of a tree as the specification defines it
Rendering(e) ==
    CASE e.variant = "Literal" ->
            IF e.token.some THEN e.token.tok.lexeme ELSE NilText
      [] e.variant = "Grouping" ->
            <<"(">> \o GroupName \o <<" ">> \o Rendering(e.kids[1]) \o <<")">>
      [] e.variant = "Unary" ->
            <<"(">> \o e.token.tok.lexeme \o <<" ">> \o Rendering(e.kids[1])
                \o <<")">>
      [] e.variant = "Binary" ->
            <<"(">> \o e.token.tok.lexeme \o <<" ">> \o Rendering(e.kids[1])
                \o <<" ">> \o Rendering(e.kids[2]) \o <<")">>

\* "(* (- 123) (group 45.67))"
TestRendering ==
    <<"(", "*", " ", "(", "-", " ", "1", "2", "3", ")", " ",
      "(", "g", "r", "o", "u", "p", " ", "4", "5", ".", "6", "7", ")", ")">>

\* C11: print returns the rendering defined recursively: a literal is its
\* lexeme or `nil`, a grouping `(group R(e))`, a unary `(op R(e))`, a binary
\* `(op R(l) R(r))`; the tree of the test renders as
\* `(* (- 123) (group 45.67))`.
C11_PrintIsRendering ==
    /\ printed.done =>
          (~printed.panicked /\ printed.text = Rendering(expr))
    /\ printed_other.done =>
          (~printed_other.panicked /\ printed_other.text = Rendering(other))
    /\ (printed.done /\ expr = TestExpression) =>
          printed.text = TestRendering

C11_Witness ==
    /\ printed.done
    /\ expr = TestExpression
    /\ printed.text = TestRendering

RECURSIVE Shape(_)
\* a tree without what the claim lets differ: the variant of every node,
\* whether a literal is present, and the lexemes
Shape(e) ==
    [variant |-> e.variant, some |-> e.token.some,
     lexeme |-> e.token.tok.lexeme,
     kids |-> [i \in 1..Len(e.kids) |-> Shape(e.kids[i])]]

\* C12: two trees print identically if and only if they have the same shape
\* (the same variant at every node, an absent literal distinct from a present
\* one) and the same operator and literal lexemes.
C12_PrintIsOracle ==
    (printed.done /\ printed_other.done) =>
        ((printed.text = printed_other.text) <=> (Shape(expr) = Shape(other)))

RECURSIVE NodeCount(_)
NodeCount(e) ==
    IF e.kids = <<>> THEN 1
    ELSE IF Len(e.kids) = 1 THEN 1 + NodeCount(e.kids[1])
    ELSE 1 + NodeCount(e.kids[1]) + NodeCount(e.kids[2])

\* the method the claim names for each variant
MethodOf ==
    [v \in {"Binary", "Grouping", "Literal", "Unary"} |->
        CASE v = "Binary" -> "visit_binary_expr"
          [] v = "Grouping" -> "visit_grouping_expr"
          [] v = "Literal" -> "visit_literal_expr"
          [] v = "Unary" -> "visit_unary_expr"]

\* C13: accept invokes exactly one visitor method per node, the one of the
\* node's variant, and passes a node equal to the receiver; no panic branch
\* of the visit methods is reached in a traversal started by print.
C13_AcceptDispatch ==
    printed.done =>
        /\ ~printed.panicked
        /\ Len(printed.visits) = NodeCount(expr)
        /\ \A i \in 1..Len(printed.visits) :
              /\ printed.visits[i].method
                     = MethodOf[printed.visits[i].receiver.variant]
              /\ printed.visits[i].node = printed.visits[i].receiver
        /\ printed.visits[1].receiver = expr

C13_Witness ==
    /\ printed.done
    /\ expr = TestExpression
    /\ Len(printed.visits) = 5
    /\ {printed.visits[i].method : i \in 1..5}
           = {MethodOf[v] : v \in DOMAIN MethodOf}

\* C15: every top-level step moves the cursor forward by at least one, the
\* loops of a step stop at the latest at the end of input, and the scan
\* goes on until the cursor is at the end and the Eof token is pushed: no
\* step ends the scan otherwise.
C15_ScanTerminatesWithEof ==
    [][pc = "scan" =>
         /\ pc' \in {"scan", "returned"}
         /\ ~is_at_end(Self) => current' >= current + 1
         /\ current' <= StrLen(source)
         /\ pc' = "returned" =>
               /\ current >= StrLen(source)
               /\ tokens' = Append(tokens, EofToken(line))]_vars

\* C16: in every state 0 <= start <= current <= length of the source, and
\* after scan_tokens has returned current is the length of the source and
\* start is where the last top-level step began.
C16_CursorBounds ==
    /\ 0 <= start
    /\ start <= current
    /\ current <= StrLen(source)
    /\ pc = "returned" =>
          /\ current = StrLen(source)
          /\ starts # <<>> => start = starts[Len(starts)]

\* the kinds of the operators of one or two characters
OneChar ==
    [c \in {"!", "=", "<", ">"} |->
        CASE c = "!" -> "Bang" [] c = "=" -> "Equal"
          [] c = "<" -> "Less" [] c = ">" -> "Greater"]

TwoChar ==
    [c \in {"!", "=", "<", ">"} |->
        CASE c = "!" -> "BangEqual" [] c = "=" -> "EqualEqual"
          [] c = "<" -> "LessEqual" [] c = ">" -> "GreaterEqual"]

\* the character after the one at the cursor is `=`
FollowedByEqual ==
    /\ current + 2 <= Len(source)
    /\ source[current + 2] = "="

\* C17: a step on one of ! = < > pushes one token: followed directly by `=`
\* the two-character token with a lexeme of length 2 and the cursor moved
\* by two, otherwise (also at the end of input) the one-character token
\* with a lexeme of length 1 and the cursor moved by one; the line is
\* unchanged; `===` gives EqualEqual, Equal, Eof.
C17_MatchNext ==
    [][(pc = "scan" /\ ~is_at_end(Self) /\ advance_char(Self) \in DOMAIN OneChar)
        => /\ pc' = "scan"
           /\ line' = line
           /\ current' = current + (IF FollowedByEqual THEN 2 ELSE 1)
           /\ Len(tokens') = Len(tokens) + 1
           /\ SubSeq(tokens', 1, Len(tokens)) = tokens
           /\ LET t == tokens'[Len(tokens')]
                  c == advance_char(Self)
              IN /\ t.token_type.kind
                       = IF FollowedByEqual THEN TwoChar[c] ELSE OneChar[c]
                 /\ Len(t.lexeme) = IF FollowedByEqual THEN 2 ELSE 1
           /\ (source = <<"=", "=", "=">> /\ current = 2) =>
                 [i \in 1..Len(tokens') |-> tokens'[i].token_type.kind]
                     = <<"EqualEqual", "Equal">>]_vars

\* the line counter is 1 + the newlines among the characters consumed, and
\* the lines of the tokens pushed do not decrease
LineCounts ==
    /\ line = 1 + Newlines(source, IF current < Len(source) THEN current
                                   ELSE Len(source))
    /\ \A i \in 1..Len(tokens) : \A j \in i..Len(tokens) :
          tokens[i].line <= tokens[j].line
    /\ pc = "returned" =>
          tokens[Len(tokens)] = EofToken(1 + Newlines(source, Len(source)))

\* C18: the line counter starts at 1, never decreases, and at every
\* top-level step is 1 + the number of newlines among the characters
\* consumed, at top level, in a string or after a comment; the line of Eof
\* is 1 + the number of newlines of the source and the lines of the tokens
\* are non-decreasing.
C18_LineCounter ==
    [][/\ current = 0 => line = 1
       /\ line' >= line
       /\ LineCounts
       /\ LineCounts']_vars

C18_Witness ==
    /\ pc = "returned"
    /\ line = 3
    /\ \E i \in 1..Len(tokens) :
          /\ tokens[i].token_type.kind = "Str"
          /\ tokens[i].line = 3
          /\ \E j \in 1..Len(tokens[i].lexeme) : tokens[i].lexeme[j] = "\n"

\* C19: a call of scan_tokens on a Scanner whose call has returned consumes
\* no character and returns the tokens of the call before with one more
\* Eof token; after the second call the list holds two Eof tokens.
C19_SecondCallAppendsEof ==
    [][pc = "returned" =>
         /\ pc' = "returned"
         /\ current' = current
         /\ start' = start
         /\ line' = line
         /\ out' = out
         /\ tokens' = Append(tokens, EofToken(line))
         /\ Cardinality({i \in 1..Len(tokens') :
                            tokens'[i].token_type.kind = "Eof"}) = calls']_vars

C19_Witness ==
    /\ pc = "returned"
    /\ calls = 2
    /\ Len(tokens) >= 3
    /\ tokens[Len(tokens)] = tokens[Len(tokens) - 1]
    /\ Cardinality(EofTokens) = 2
    /\ current = StrLen(source)

\* C20: the cursor is the same position as a character index and as a byte
\* offset: every top-level step reads a character of the source, no `\0`
\* sentinel is reported as an unexpected character, and every lexeme slice
\* lies within the source on character boundaries, so that no slice panics
\* (the slice after an unterminated string, the matter of C1, set aside).
C20_CursorIsOnePosition ==
    /\ \A i \in 1..Len(starts) : starts[i] < Len(source)
    /\ \A i \in 1..Len(out) :
          out[i].message # <<"Unexpected character", NUL>>
    /\ \A i \in 1..Len(spans) :
          /\ spans[i][2] <= StrLen(source)
          /\ IsCharBoundary(source, spans[i][1])
          /\ IsCharBoundary(source, spans[i][2])
    /\ pc = "panic" => ReportsOf(Unterminated) # {}

====
